---- MODULE Spec2Model ----
(***************************************************************************)
(* Spare-change accrual and payout batching of coffee-change.              *)
(*                                                                         *)
(* The model follows one wallet address through                            *)
(*   UserService.connectWallet,                                            *)
(*   TransactionTrackingService.syncTransactions (with processTransaction, *)
(*   updateAccumulatedSpareChange, updateLastTransaction,                  *)
(*   createPayoutBatch, resetAccumulatedSpareChange),                     *)
(*   TransactionFetcher.fetchTransactions,                                 *)
(* and one ProposalEngine with its PriceOracle through generateProposals.  *)
(* processTransaction's arithmetic, filterNewTransactions and              *)
(* getHistoricalPrice are also followed alone, on inputs of their own.     *)
(*                                                                         *)
(* Every await on the store is one step of a sync, so that two syncs of    *)
(* the wallet interleave exactly at the points where the code suspends.    *)
(*                                                                         *)
(* Units.  USD amounts are integer cents.  Native amounts of a transaction *)
(* are tenths of a unit, prices are tenths of a USD per native unit, so    *)
(* amount * price is a number of cents.  Native spare change is kept in    *)
(* thousandths of a unit.  NaN stands for the IEEE not-a-number the code   *)
(* produces when it divides 0 by the degraded price 0.                     *)
(***************************************************************************)
EXTENDS Integers, Sequences, FiniteSets, TLC

\* ------------------------------------------------------------------ bounds
MaxChain == 3        \* transactions the source ever holds for the wallet
MaxFaults == 1       \* store / upstream failures injected in one behaviour
MaxBatches == 2      \* payout batches ever inserted
FetchLimit == 2      \* signatures one sync fetches (the code asks for 100)
MaxClock == 2        \* minutes the proposal engine's process is followed
MaxPreview == 1      \* transactions handed to one generateProposals call
MaxRefetch == 2      \* live fetches followed per key and expiry
MaxAmount == 25      \* largest amount, in tenths of a unit, of one computation
MaxWindow == 4       \* signatures of the fetched list of one computation
MaxOrdered == 2      \* transactions of a call whose output order is followed

\* --------------------------------------------------------------- constants
payoutThreshold == 100   \* 1.00 USD, in cents
NaN == 0 - 1             \* no amount of the program is negative

Procs == {1, 2}          \* concurrent requests to the sync endpoint
LivePrices == {10}       \* 1.00 USD per native unit
PriceOutcomes == LivePrices \cup {0}   \* 0: the degraded quote of a failed fetch

\* The transactions the source may hold: amount 0 stands for "no amount".
TxKinds ==
  { [type |-> "sent", success |-> TRUE, amount |-> 3],
    [type |-> "sent", success |-> TRUE, amount |-> 6],
    [type |-> "received", success |-> TRUE, amount |-> 6] }

VARIABLES
  chain,     \* the source's transactions of the wallet, oldest first;
             \* a transaction's signature is its index
  users,     \* rows of table users for the wallet address (none or one)
  ledger,    \* rows of table transactions; a row's id is its index
  batches,   \* rows of table payout_batches; a batch's id is its index
  pc,        \* where each sync request stands
  loc,       \* the local variables of each sync request
  faults,    \* failures injected so far
  synced,    \* history: the last request to finish was a sync that returned
             \* successfully and no transaction arrived since it fetched
  now,         \* the clock of the proposal engine's process, in minutes
  priceCache,  \* PriceOracle.priceCache of the engine's oracle, per cache key
  liveFetches, \* history: live fetches issued per key since its entry expired
  served,      \* history: the last degraded and the last fetched quote
               \* the generateProposals call in progress got
  preview,     \* the generateProposals call in progress and its result
  calc         \* the inputs and outputs of one computation followed alone

\* The state of the proposal preview (ProposalEngine and its PriceOracle).
pricing == <<now, priceCache, liveFetches, served, preview>>

vars ==
  <<chain, users, ledger, batches, pc, loc, faults, synced, pricing, calc>>

\* ------------------------------------------------------------ arithmetic
\* JavaScript number addition: NaN is absorbing.
Plus(a, b) == IF a = NaN \/ b = NaN THEN NaN ELSE a + b

\* Math.ceil of a USD amount held in cents.
CeilDollar(cents) == ((cents + 99) \div 100) * 100

RECURSIVE SumUsd(_, _)
SumUsd(rows, ids) ==
  IF ids = {} THEN 0
  ELSE LET i == CHOOSE x \in ids : TRUE
       IN rows[i].usd + SumUsd(rows, ids \ {i})

RECURSIVE SumSol(_, _)
SumSol(rows, ids) ==
  IF ids = {} THEN 0
  ELSE LET i == CHOOSE x \in ids : TRUE
       IN Plus(rows[i].sol, SumSol(rows, ids \ {i}))

\* ---------------------------------------------------- TransactionFetcher
\* The signatures getSignaturesForAddress returns, newest first, at most
\* limit of them.
RECURSIVE Newest(_, _)
Newest(n, limit) ==
  IF n = 0 \/ limit = 0 THEN <<>> ELSE <<n>> \o Newest(n - 1, limit - 1)

\* fetchTransactionDetails keeps, in order, the signatures that parsed;
\* the lookback filter and a failed parse both drop a signature.
FetchedWindow(n, limit, kept) ==
  SelectSeq(Newest(n, limit), LAMBDA s : s \in kept)

SeqRange(s) == { s[i] : i \in 1..Len(s) }

\* ------------------------------------------- TransactionTrackingService
\* Array.findIndex, 1-based; 0 when absent (the code's -1).
FindIndex(txs, sig) ==
  IF \E i \in 1..Len(txs) : txs[i] = sig
  THEN CHOOSE i \in 1..Len(txs) :
         txs[i] = sig /\ \A j \in 1..(i - 1) : txs[j] # sig
  ELSE 0

\* lastSignature 0 is the null pointer.
filterNewTransactionsInclusive(txs, lastSignature) ==
  IF lastSignature = 0 THEN txs
  ELSE LET lastIndex == FindIndex(txs, lastSignature)
       IN IF lastIndex = 0 THEN txs ELSE SubSeq(txs, 1, lastIndex)
filterNewTransactions(txs, lastSignature) ==
  IF lastSignature = 0 THEN txs
  ELSE LET lastIndex == FindIndex(txs, lastSignature)
       IN IF lastIndex = 0 THEN txs ELSE SubSeq(txs, 1, lastIndex - 1)

\* tx.type === 'sent' && tx.success && tx.amount
IsSentAnyOutcome(tx) == tx.type = "sent" /\ tx.amount # 0
IsSent(tx) == tx.type = "sent" /\ tx.success /\ tx.amount # 0

\* processTransaction's arithmetic on one transaction at one price.
originalAmountUsd(amount, price) == amount * price
spareChangeUsd(amount, price) ==
  CeilDollar(originalAmountUsd(amount, price)) - originalAmountUsd(amount, price)
spareChangeSol(amount, price) ==
  IF price = 0 THEN NaN
  ELSE (spareChangeUsd(amount, price) * 100) \div price

\* existing is history: how many transactions the source held when the
\* wallet was connected.
NewUser(sig) ==
  [lastSig |-> sig, accUsd |-> 0, accSol |-> 0,
   lifeUsd |-> 0, lifeSol |-> 0, payouts |-> 0, existing |-> 0]

NoLoc ==
  [lastSig |-> 0, todo |-> <<>>, latest |-> 0, count |-> 0,
   curUsd |-> 0, curSol |-> 0,
   rdAccUsd |-> 0, rdAccSol |-> 0, rdLifeUsd |-> 0, rdLifeSol |-> 0,
   snap |-> {}, batch |-> 0, err |-> "none", seen |-> 0,
   bad |-> FALSE, io |-> FALSE, srcErr |-> FALSE, failed |-> {},
   new |-> <<>>, wrote |-> 0]

Unprocessed(rows) == { i \in 1..Len(rows) : ~rows[i].processed }

\* The store's unique (wallet_address, signature) constraint on table
\* transactions.
UniqueViolation(rows, sig) == \E i \in 1..Len(rows) : rows[i].sig = sig

AllIdle == \A p \in Procs : pc[p] = "idle"

\* ------------------------------------------------ proposal preview: state
\* Native amounts of the preview are ten-thousandths of a unit, prices are
\* whole USD per unit, so amount * price is in ten-thousandths of a USD.
\* Times are minutes.
cacheDuration == 1       \* 60 * 1000 ms
recentWindow == 5        \* 300 s

\* 'sol_current' and `${tokenMint}_current` of one token.
Keys == {"sol_current", "mint_current"}

\* What the price API may answer: no answer, an answer without a price, a
\* price.
Responses ==
  { [ok |-> FALSE, price |-> 0], [ok |-> TRUE, price |-> 0],
    [ok |-> TRUE, price |-> 180] }

\* The transactions a preview may be asked about; mint: the transaction
\* moved the token, not the native asset.
PreviewTxs ==
  { [type |-> "sent", success |-> TRUE, amount |-> 5000, mint |-> FALSE,
     blockTime |-> 5],
    [type |-> "sent", success |-> TRUE, amount |-> 100000, mint |-> FALSE,
     blockTime |-> 0],
    [type |-> "sent", success |-> TRUE, amount |-> 12500, mint |-> TRUE,
     blockTime |-> 5],
    [type |-> "received", success |-> TRUE, amount |-> 5000, mint |-> FALSE,
     blockTime |-> 5] }

\* ProposalConfig; min and max 0: the option is absent (or 0, which the
\* code treats alike).
Configs ==
  [roundupEnabled : BOOLEAN, percentageEnabled : BOOLEAN,
   percentageRate : {0, 1}, min : {0, 2000}, max : {0, 1000, 4000}]

NoEntry == [present |-> FALSE, price |-> 0, timestamp |-> 0]
NoQuote == [price |-> 0, timestamp |-> 0, source |-> "none"]
NoPreview ==
  [pc |-> "idle", txs |-> <<>>, todo |-> <<>>, proposals |-> <<>>,
   config |-> [roundupEnabled |-> FALSE, percentageEnabled |-> FALSE,
               percentageRate |-> 0, min |-> 0, max |-> 0]]

NoCalc == [kind |-> "none"]

\* Nothing has happened yet: no user, no row, no request, an empty cache.
Construct ==
  /\ chain = <<>>
  /\ users = <<>>
  /\ ledger = <<>>
  /\ batches = <<>>
  /\ pc = [p \in Procs |-> "idle"]
  /\ loc = [p \in Procs |-> NoLoc]
  /\ faults = 0
  /\ synced = FALSE
  /\ now = recentWindow
  /\ priceCache = [k \in Keys |-> NoEntry]
  /\ liveFetches = [k \in Keys |-> 0]
  /\ served = [degraded |-> NoQuote, live |-> NoQuote]
  /\ preview = NoPreview

Init == Construct /\ calc = NoCalc

\* ------------------------------------------------------- control helpers
\* A request ends: what its caller receives is kept until Respond.  seen is
\* history: how many transactions the source held when the request fetched.
\* bad, io and srcErr are history too: the request's address was malformed,
\* the request called the store, the source or the price feed, and its
\* fetchTransactions call failed.  failed is history: the signatures whose
\* ledger row the store failed to write in this request.  new is the
\* request's newTransactions and wrote, history, counts its writes of the
\* pointer; both are kept to the end of the request.
Return(p, count, batch, seen) ==
  /\ pc' = [pc EXCEPT ![p] = "done"]
  /\ loc' = [loc EXCEPT ![p] = [NoLoc EXCEPT !.count = count, !.batch = batch,
                                             !.seen = seen, !.io = TRUE,
                                             !.failed = loc[p].failed,
                                             !.new = loc[p].new,
                                             !.wrote = loc[p].wrote]]

\* Every throw of a sync follows a call of the store or the source.
Throw(p, e) ==
  /\ pc' = [pc EXCEPT ![p] = "done"]
  /\ loc' = [loc EXCEPT ![p] = [NoLoc EXCEPT !.err = e, !.io = TRUE,
                                             !.failed = loc[p].failed,
                                             !.new = loc[p].new,
                                             !.wrote = loc[p].wrote]]

\* n failures of store or upstream calls injected into request p (0: a
\* connectWallet call).  A failure hits only a request that runs alone:
\* overlapping requests run without failures.
Faults(p, n) ==
  /\ faults + n <= MaxFaults
  /\ n > 0 => \A q \in Procs \ {p} : pc[q] = "idle"
  /\ faults' = faults + n
Fault(p) == Faults(p, 1)

\* The loop of syncTransactions over sentTransactions.
NextTx(todo) == IF todo = <<>> THEN "updLast" ELSE "insert"

\* ------------------------------------------------------------ the source
\* A transaction of one of the kinds reaches the wallet's history.
ArriveOf(kinds) ==
  /\ Len(chain) < MaxChain
  /\ \E k \in kinds : chain' = Append(chain, k)
  /\ synced' = FALSE
  /\ UNCHANGED <<users, ledger, batches, pc, loc, faults, pricing, calc>>

Arrive == ArriveOf(TxKinds)

\* ---------------------------------------------- UserService.connectWallet
\* The baseline of a new user: the newest transaction of a fetch with
\* limit 1, or null when nothing was fetched (or the fetch threw).
Baseline(n, kept) ==
  LET txs == FetchedWindow(n, 1, kept)
  IN IF Len(txs) > 0 THEN txs[1] ELSE 0

ConnectWallet ==
  /\ \/ /\ users # <<>>
        /\ UNCHANGED <<users, faults>>
     \/ /\ users = <<>>
        /\ \E kept \in SUBSET SeqRange(Newest(Len(chain), 1)) :
             /\ Faults(0, IF kept = SeqRange(Newest(Len(chain), 1)) THEN 0 ELSE 1)
             /\ users' = <<[NewUser(Baseline(Len(chain), kept))
                              EXCEPT !.existing = Len(chain)]>>
     \/ /\ Fault(0)
        /\ UNCHANGED users
  /\ UNCHANGED <<chain, ledger, batches, pc, loc, synced, pricing, calc>>

\* ------------------------------------------------------ syncTransactions
\* if (!user) throw new Error('User not found. Please connect wallet first.')
AfterGetUserUnchecked(found) == "fetch"
AfterGetUser(found) == IF found THEN "fetch" ELSE "throw"

\* getUser and the check of its result
Begin(p) ==
  /\ pc[p] = "idle"
  /\ \/ /\ Fault(p)
        /\ Throw(p, "StoreError")
     \/ /\ UNCHANGED faults
        /\ IF AfterGetUser(users # <<>>) = "throw"
           THEN Throw(p, "UserNotFound")
           ELSE /\ pc' = [pc EXCEPT ![p] = "fetch"]
                /\ loc' = [loc EXCEPT ![p] =
                             [NoLoc EXCEPT !.io = TRUE,
                                           !.lastSig =
                                             IF users = <<>> THEN 0
                                             ELSE users[1].lastSig]]
  /\ UNCHANGED <<chain, users, ledger, batches, synced, pricing, calc>>

\* fetchTransactions, filterNewTransactions, the early return and the
\* filter for sent transactions
\* The catch of fetchTransactions: the error of the signature fetch is
\* thrown on and ends the sync.
OnFetchErrorSwallowed(p) ==
  /\ pc' = [pc EXCEPT ![p] = "done"]
  /\ loc' = [loc EXCEPT ![p] = [NoLoc EXCEPT !.seen = Len(chain), !.io = TRUE,
                                             !.srcErr = TRUE]]
OnFetchError(p) ==
  /\ pc' = [pc EXCEPT ![p] = "done"]
  /\ loc' = [loc EXCEPT ![p] = [NoLoc EXCEPT !.err = "FetchFailed",
                                             !.io = TRUE, !.srcErr = TRUE]]

\* const latestTx = newTransactions[0]
OldestTx(newTransactions) == newTransactions[Len(newTransactions)]
LatestTx(newTransactions) == newTransactions[1]

Fetch(p) ==
  /\ pc[p] = "fetch"
  /\ \/ /\ Fault(p)
        /\ OnFetchError(p)
     \/ \E kept \in SUBSET SeqRange(Newest(Len(chain), FetchLimit)) :
          /\ Faults(p, IF kept = SeqRange(Newest(Len(chain), FetchLimit))
                       THEN 0 ELSE 1)
          /\ LET allTransactions == FetchedWindow(Len(chain), FetchLimit, kept)
                 newTransactions ==
                   filterNewTransactions(allTransactions, loc[p].lastSig)
                 sentTransactions ==
                   SelectSeq(newTransactions, LAMBDA s : IsSent(chain[s]))
            IN IF Len(newTransactions) = 0
               THEN Return(p, 0, 0, Len(chain))
               ELSE /\ pc' = [pc EXCEPT ![p] = NextTx(sentTransactions)]
                    /\ loc' = [loc EXCEPT ![p].todo = sentTransactions,
                                          ![p].latest =
                                            LatestTx(newTransactions),
                                          ![p].new = newTransactions,
                                          ![p].seen = Len(chain)]
  /\ UNCHANGED <<chain, users, ledger, batches, synced, pricing, calc>>

\* processTransaction: what follows the insert's outcome.
AfterInsertAlways(error) == "accumulate"
AfterInsert(error) == IF error THEN "skip" ELSE "accumulate"

\* if (error) { console.error(...); return null }: the loop goes on with the
\* next transaction.  failed: the request's failed writes, this one included.
OnInsertErrorThrown(p, failed) ==
  /\ pc' = [pc EXCEPT ![p] = "done"]
  /\ loc' = [loc EXCEPT ![p] = [NoLoc EXCEPT !.err = "StoreError",
                                             !.io = TRUE, !.failed = failed,
                                             !.new = loc[p].new]]
OnInsertError(p, failed) ==
  /\ pc' = [pc EXCEPT ![p] = NextTx(Tail(loc[p].todo))]
  /\ loc' = [loc EXCEPT ![p].todo = Tail(loc[p].todo), ![p].failed = failed]

LedgerRow(sig, amount, price) ==
  [sig |-> sig, amount |-> amount, price |-> price,
   usd |-> spareChangeUsd(amount, price),
   sol |-> spareChangeSol(amount, price),
   processed |-> FALSE, batchId |-> 0]

\* processTransaction up to the insert: the price, the arithmetic, the row.
\* The price oracle belongs to the request, so its await is no point where
\* another request can change what this one sees.
Insert(p) ==
  /\ pc[p] = "insert"
  /\ \E price \in PriceOutcomes, injected \in BOOLEAN :
       LET sig == Head(loc[p].todo)
           row == LedgerRow(sig, chain[sig].amount, price)
           error == injected \/ UniqueViolation(ledger, sig)
       IN /\ Faults(p, (IF price = 0 THEN 1 ELSE 0)
                       + (IF injected THEN 1 ELSE 0))
          /\ ledger' = IF error THEN ledger ELSE Append(ledger, row)
          /\ IF AfterInsert(error) = "skip"
             THEN OnInsertError(p, IF injected
                                   THEN loc[p].failed \cup {sig}
                                   ELSE loc[p].failed)
             ELSE /\ pc' = [pc EXCEPT ![p] = "accRead"]
                  /\ loc' = [loc EXCEPT ![p].curUsd = row.usd,
                                        ![p].curSol = row.sol]
  /\ UNCHANGED <<chain, users, batches, synced, pricing, calc>>

\* updateAccumulatedSpareChange: getUser
AccRead(p) ==
  /\ pc[p] = "accRead"
  /\ \/ /\ Fault(p)
        /\ Throw(p, "StoreError")
     \/ /\ UNCHANGED faults
        /\ pc' = [pc EXCEPT ![p] = "accWrite"]
        /\ loc' = [loc EXCEPT ![p].rdAccUsd = users[1].accUsd,
                              ![p].rdAccSol = users[1].accSol,
                              ![p].rdLifeUsd = users[1].lifeUsd,
                              ![p].rdLifeSol = users[1].lifeSol]
  /\ UNCHANGED <<chain, users, ledger, batches, synced, pricing, calc>>

\* updateAccumulatedSpareChange: the row written from the values read.
Accumulated(u, l) ==
  [u EXCEPT !.accUsd = l.rdAccUsd + l.curUsd,
            !.accSol = Plus(l.rdAccSol, l.curSol),
            !.lifeUsd = l.rdLifeUsd + l.curUsd,
            !.lifeSol = Plus(l.rdLifeSol, l.curSol)]

\* updateAccumulatedSpareChange: update; then processedTransactions.push
AccWrite(p) ==
  /\ pc[p] = "accWrite"
  /\ \/ /\ Fault(p)
        /\ Throw(p, "StoreError")
        /\ UNCHANGED users
     \/ /\ UNCHANGED faults
        /\ users' = <<Accumulated(users[1], loc[p])>>
        /\ pc' = [pc EXCEPT ![p] = NextTx(Tail(loc[p].todo))]
        /\ loc' = [loc EXCEPT ![p].todo = Tail(loc[p].todo),
                              ![p].count = loc[p].count + 1,
                              ![p].curUsd = 0, ![p].curSol = 0,
                              ![p].rdAccUsd = 0, ![p].rdAccSol = 0,
                              ![p].rdLifeUsd = 0, ![p].rdLifeSol = 0]
  /\ UNCHANGED <<chain, ledger, batches, synced, pricing, calc>>

\* updateLastTransaction
UpdLast(p) ==
  /\ pc[p] = "updLast"
  /\ \/ /\ Fault(p)
        /\ Throw(p, "StoreError")
        /\ UNCHANGED users
     \/ /\ UNCHANGED faults
        /\ users' = <<[users[1] EXCEPT !.lastSig = loc[p].latest]>>
        /\ pc' = [pc EXCEPT ![p] = "check"]
        /\ loc' = [loc EXCEPT ![p].wrote = @ + 1]
  /\ UNCHANGED <<chain, ledger, batches, synced, pricing, calc>>

\* The threshold check on the re-read user.
Check(p) ==
  /\ pc[p] = "check"
  /\ \/ /\ Fault(p)
        /\ Throw(p, "StoreError")
     \/ /\ UNCHANGED faults
        /\ IF users[1].accUsd >= payoutThreshold
           THEN /\ pc' = [pc EXCEPT ![p] = "select"]
                /\ UNCHANGED loc
           ELSE Return(p, loc[p].count, 0, loc[p].seen)
  /\ UNCHANGED <<chain, users, ledger, batches, synced, pricing, calc>>

\* ------------------------------------------------------ createPayoutBatch
\* if (!unprocessedTransactions || unprocessedTransactions.length === 0)
\*   throw new Error('No unprocessed transactions found')
AfterSelectUnchecked(rows) == "batch"
AfterSelect(rows) == IF rows = {} THEN "throw" ELSE "batch"

\* The select of the unprocessed rows.
Select(p) ==
  /\ pc[p] = "select"
  /\ \/ /\ Fault(p)
        /\ Throw(p, "StoreError")
     \/ /\ UNCHANGED faults
        /\ IF AfterSelect(Unprocessed(ledger)) = "throw"
           THEN Throw(p, "NoUnprocessed")
           ELSE /\ pc' = [pc EXCEPT ![p] = "batchIns"]
                /\ loc' = [loc EXCEPT ![p].snap = Unprocessed(ledger)]
  /\ UNCHANGED <<chain, users, ledger, batches, synced, pricing, calc>>

\* The batch row, from the rows selected.  counted is history: the ids the
\* totals were computed from (the code's transactionIds).
BatchRow(rows, ids) ==
  [usd |-> SumUsd(rows, ids), sol |-> SumSol(rows, ids),
   count |-> Cardinality(ids), status |-> "pending", counted |-> ids]

BatchIns(p) ==
  /\ pc[p] = "batchIns"
  /\ Len(batches) < MaxBatches
  /\ \/ /\ Fault(p)
        /\ Throw(p, "StoreError")
        /\ UNCHANGED batches
     \/ /\ UNCHANGED faults
        /\ batches' = Append(batches, BatchRow(ledger, loc[p].snap))
        /\ pc' = [pc EXCEPT ![p] = "mark"]
        /\ loc' = [loc EXCEPT ![p].batch = Len(batches) + 1]
  /\ UNCHANGED <<chain, users, ledger, synced, pricing, calc>>

\* update ... set is_processed, batch_id ... where id in transactionIds
MarkRows(rows, ids, b) ==
  [i \in 1..Len(rows) |->
     IF i \in ids THEN [rows[i] EXCEPT !.processed = TRUE, !.batchId = b]
     ELSE rows[i]]

Mark(p) ==
  /\ pc[p] = "mark"
  /\ \/ /\ Fault(p)
        /\ Throw(p, "StoreError")
        /\ UNCHANGED ledger
     \/ /\ UNCHANGED faults
        /\ ledger' = MarkRows(ledger, loc[p].snap, loc[p].batch)
        /\ pc' = [pc EXCEPT ![p] = "reset"]
        /\ UNCHANGED loc
  /\ UNCHANGED <<chain, users, batches, synced, pricing, calc>>

\* resetAccumulatedSpareChange
ResetUserKeepsNative(u) ==
  [u EXCEPT !.accUsd = 0, !.payouts = u.payouts + 1]
ResetUser(u) ==
  [u EXCEPT !.accUsd = 0, !.accSol = 0, !.payouts = u.payouts + 1]

Reset(p) ==
  /\ pc[p] = "reset"
  /\ \/ /\ Fault(p)
        /\ Throw(p, "StoreError")
        /\ UNCHANGED users
     \/ /\ UNCHANGED faults
        /\ users' = <<ResetUser(users[1])>>
        /\ Return(p, loc[p].count, loc[p].batch, loc[p].seen)
  /\ UNCHANGED <<chain, ledger, batches, synced, pricing, calc>>

\* ------------------------------------------------ the route's POST handler
\* The handler answers its caller; the request is over.
Respond(p) ==
  /\ pc[p] = "done"
  /\ pc' = [pc EXCEPT ![p] = "idle"]
  /\ loc' = [loc EXCEPT ![p] = NoLoc]
  /\ synced' = (loc[p].err = "none" /\ loc[p].seen = Len(chain))
  /\ UNCHANGED <<chain, users, ledger, batches, faults, pricing, calc>>

Step(p) ==
  \/ Fetch(p) \/ Insert(p) \/ AccRead(p) \/ AccWrite(p) \/ UpdLast(p)
  \/ Check(p) \/ Select(p) \/ BatchIns(p) \/ Mark(p) \/ Reset(p)
  \/ Respond(p)

\* Requests are anonymous: a new one takes the lowest free slot.  Once a
\* failure was injected, requests run one at a time (see Faults).
FreeSlot(p) ==
  /\ \A q \in Procs : q < p => pc[q] # "idle"
  /\ faults = 0 \/ AllIdle

\* Requests arrive at any time.
Next ==
  \/ Arrive
  \/ ConnectWallet
  \/ \E p \in Procs : FreeSlot(p) /\ Begin(p)
  \/ \E p \in Procs : Step(p)

Spec == Init /\ [][Next]_vars

\* ------------------------------------------------- malformed addresses
\* syncTransactions called with an address that is no public key: getUser
\* runs first; no user has such an address (connectWallet rejects it), so
\* the call ends with the store's error or with "User not found".
BeginMalformed(p) ==
  /\ pc[p] = "idle"
  /\ pc' = [pc EXCEPT ![p] = "done"]
  /\ \/ /\ Fault(p)
        /\ loc' = [loc EXCEPT ![p] = [NoLoc EXCEPT !.err = "StoreError",
                                                   !.bad = TRUE, !.io = TRUE]]
     \/ /\ UNCHANGED faults
        /\ loc' = [loc EXCEPT ![p] = [NoLoc EXCEPT !.err = "UserNotFound",
                                                   !.bad = TRUE, !.io = TRUE]]
  /\ UNCHANGED <<chain, users, ledger, batches, synced, pricing, calc>>

\* connectWallet called with such an address: createTypedAddress throws
\* before the first store call.
ConnectMalformed(p) ==
  /\ pc[p] = "idle"
  /\ pc' = [pc EXCEPT ![p] = "done"]
  /\ loc' = [loc EXCEPT ![p] = [NoLoc EXCEPT !.err = "InvalidAddress",
                                             !.bad = TRUE]]
  /\ UNCHANGED <<chain, users, ledger, batches, faults, synced, pricing, calc>>

\* Requests run one at a time.
NextSeq ==
  \/ Arrive
  \/ AllIdle /\ ConnectWallet
  \/ \E p \in Procs : AllIdle /\ FreeSlot(p) /\ Begin(p)
  \/ \E p \in Procs : Step(p)

SeqSpec == Init /\ [][NextSeq]_vars

\* Requests run one at a time and may carry a malformed address.
NextAddr ==
  \/ Arrive
  \/ AllIdle /\ ConnectWallet
  \/ \E p \in Procs : AllIdle /\ FreeSlot(p) /\ Begin(p)
  \/ \E p \in Procs : AllIdle /\ FreeSlot(p) /\ BeginMalformed(p)
  \/ \E p \in Procs : AllIdle /\ FreeSlot(p) /\ ConnectMalformed(p)
  \/ \E p \in Procs : Step(p)

AddrSpec == Init /\ [][NextAddr]_vars

\* ------------------------------------------------------------ PriceOracle
\* fetchFromJupiter: throws when the answer is not ok or carries no price.
FetchFromJupiter(resp) ==
  IF resp.ok /\ resp.price # 0
  THEN [threw |-> FALSE, price |-> resp.price]
  ELSE [threw |-> TRUE, price |-> 0]

\* getCachedPrice finds an entry it may serve at time t.
Fresh(cache, key, t) ==
  cache[key].present /\ ~(t - cache[key].timestamp > cacheDuration)

\* getCachedPrice finds an entry too old to serve and deletes it.
Expired(cache, key, t) ==
  cache[key].present /\ t - cache[key].timestamp > cacheDuration

\* The fallback of the catch block: price 0 under the label of a fetched
\* quote.
DegradedQuoteAsCached(t) == [price |-> 0, timestamp |-> t, source |-> "cached"]
DegradedQuote(t) == [price |-> 0, timestamp |-> t, source |-> "jupiter"]

\* getCurrentSolPrice / getCurrentTokenPrice at time t when the price API
\* would answer resp: the quote returned and the cache left behind.  live
\* and degraded are history: a live fetch was issued, and it failed.
GetCurrentPrice(cache, key, t, resp) ==
  IF Fresh(cache, key, t)
  THEN [quote |-> [price |-> cache[key].price,
                   timestamp |-> cache[key].timestamp, source |-> "cached"],
        cache |-> cache, live |-> FALSE, degraded |-> FALSE]
  ELSE LET fetched == FetchFromJupiter(resp)
           missed == [cache EXCEPT ![key] = NoEntry]
       IN IF fetched.threw
          THEN [quote |-> DegradedQuote(t),
                cache |-> missed, live |-> TRUE, degraded |-> TRUE]
          ELSE [quote |-> [price |-> fetched.price, timestamp |-> t,
                           source |-> "jupiter"],
                cache |-> [cache EXCEPT ![key] =
                             [present |-> TRUE, price |-> fetched.price,
                              timestamp |-> t]],
                live |-> TRUE, degraded |-> FALSE]

CacheKey(tx) == IF tx.mint THEN "mint_current" ELSE "sol_current"

\* getHistoricalPrice: the current price, stamped with the block time when
\* the transaction is not recent.
GetHistoricalPriceAsIs(cache, tx, t, resp) ==
  GetCurrentPrice(cache, CacheKey(tx), t, resp)
GetHistoricalPrice(cache, tx, t, resp) ==
  LET r == GetCurrentPrice(cache, CacheKey(tx), t, resp)
  IN IF t - tx.blockTime < recentWindow
     THEN r
     ELSE [r EXCEPT !.quote.timestamp = tx.blockTime]

\* One call of the oracle for tx: its effect on the cache and the history.
\* A key's count of live fetches restarts when its entry expires.
OracleCall(tx, r) ==
  LET key == CacheKey(tx)
  IN /\ r.live => (Expired(priceCache, key, now) \/ liveFetches[key] < MaxRefetch)
     /\ priceCache' = r.cache
     /\ liveFetches' =
          [liveFetches EXCEPT ![key] =
             IF ~r.live THEN @
             ELSE IF Expired(priceCache, key, now) THEN 1 ELSE @ + 1]
     /\ served' = IF r.degraded THEN [served EXCEPT !.degraded = r.quote]
                  ELSE IF r.live THEN [served EXCEPT !.live = r.quote]
                  ELSE served

NoOracleCall == UNCHANGED <<priceCache, liveFetches, served>>

\* --------------------------------------------------------- ProposalEngine
\* Math.ceil of a native amount held in ten-thousandths.
CeilUnit(a) == ((a + 9999) \div 10000) * 10000

\* generateRoundupProposal: roundedUp - amount
RoundupSpareFloorPlusOne(amount) == (amount \div 10000 + 1) * 10000 - amount
RoundupSpare(amount) == CeilUnit(amount) - amount

\* generatePercentageProposal: amount * (config.percentageRate / 100)
PercentageSpareOfRate(amount, rate) == amount * rate
PercentageSpare(amount, rate) == (amount * rate) \div 100

\* config.minProposalAmount && spareChange < config.minProposalAmount
TooSmall(spare, config) == config.min # 0 /\ spare < config.min

\* config.maxProposalAmount ? Math.min(spareChange, max) : spareChange
FinalSpareChange(spare, config) ==
  IF config.max # 0
  THEN IF spare < config.max THEN spare ELSE config.max
  ELSE spare

\* The proposal built from a transaction, its final spare change and the
\* quote.  tx is the transaction's place in the input; degraded is history.
Proposal(i, tx, kind, final, r, config) ==
  [tx |-> i, originalAmountSol |-> tx.amount,
   originalAmountUsd |-> tx.amount * r.quote.price,
   priceUsd |-> r.quote.price,
   priceSource |-> IF r.quote.source = "cached" THEN "jupiter"
                   ELSE r.quote.source,
   proposalType |-> kind,
   percentageRate |-> IF kind = "percentage" THEN config.percentageRate ELSE 0,
   spareChangeAmountSol |-> final,
   spareChangeAmountUsd |-> final * r.quote.price,
   status |-> "pending", degraded |-> r.degraded]

\* proposals.push(proposal)
PushFront(proposals, proposal) == <<proposal>> \o proposals
Push(proposals, proposal) == Append(proposals, proposal)

\* One of the two generators applied to the transaction at the head of the
\* call's list (a transaction's signature is its place in the input):
\* nothing (and no price read) when the spare change is too small, else a
\* price read and a proposal.  The call goes on at nextPc with nextTodo.
GenerateProposal(kind, spare, nextPc, nextTodo) ==
  LET i == Head(preview.todo)
      tx == preview.txs[i]
  IN IF TooSmall(spare, preview.config)
     THEN /\ NoOracleCall
          /\ preview' = [preview EXCEPT !.pc = nextPc, !.todo = nextTodo]
     ELSE \E resp \in Responses :
            LET r == GetHistoricalPrice(priceCache, tx, now, resp)
                final == FinalSpareChange(spare, preview.config)
            IN /\ OracleCall(tx, r)
               /\ preview' =
                    [preview EXCEPT
                       !.pc = nextPc, !.todo = nextTodo,
                       !.proposals =
                         Push(@, Proposal(i, tx, kind, final, r,
                                          preview.config))]

PreviewStage(todo) == IF todo = <<>> THEN "done" ELSE "roundup"

\* generateProposals is called with at most max transactions of the kinds
\* and one of the configurations: the filter for sent transactions.
GenerateOf(kinds, configs, max) ==
  /\ preview.pc = "idle"
  /\ \E n \in 0..max :
       \E txs \in [1..n -> kinds], config \in configs :
         LET sentTransactions ==
               SelectSeq([i \in 1..n |-> i], LAMBDA i : IsSent(txs[i]))
         IN preview' = [pc |-> PreviewStage(sentTransactions),
                        txs |-> txs, todo |-> sentTransactions,
                        proposals |-> <<>>, config |-> config]
  /\ UNCHANGED <<now, priceCache, liveFetches, served>>

Generate == GenerateOf(PreviewTxs, Configs, MaxPreview)

\* if (config.roundupEnabled) ... generateRoundupProposal
Roundup ==
  /\ preview.pc = "roundup"
  /\ IF preview.config.roundupEnabled
     THEN GenerateProposal("roundup",
                           RoundupSpare(preview.txs[Head(preview.todo)].amount),
                           "percentage", preview.todo)
     ELSE /\ NoOracleCall
          /\ preview' = [preview EXCEPT !.pc = "percentage"]
  /\ UNCHANGED now

\* if (config.percentageEnabled && config.percentageRate > 0) ...
\* generatePercentageProposal; then the next transaction
Percentage ==
  /\ preview.pc = "percentage"
  /\ LET rest == Tail(preview.todo)
     IN IF preview.config.percentageEnabled /\ preview.config.percentageRate > 0
        THEN GenerateProposal("percentage",
                              PercentageSpare(
                                preview.txs[Head(preview.todo)].amount,
                                preview.config.percentageRate),
                              PreviewStage(rest), rest)
        ELSE /\ NoOracleCall
             /\ preview' = [preview EXCEPT !.pc = PreviewStage(rest),
                                           !.todo = rest]
  /\ UNCHANGED now

\* The caller takes the result.
Deliver ==
  /\ preview.pc = "done"
  /\ preview' = NoPreview
  /\ served' = [degraded |-> NoQuote, live |-> NoQuote]
  /\ UNCHANGED <<now, priceCache, liveFetches>>

\* A minute passes.
Tick ==
  /\ now < recentWindow + MaxClock
  /\ now' = now + 1
  /\ UNCHANGED <<priceCache, liveFetches, served, preview>>

sync == <<chain, users, ledger, batches, pc, loc, faults, synced>>

NextPreview ==
  \/ Generate /\ UNCHANGED <<sync, calc>>
  \/ Roundup /\ UNCHANGED <<sync, calc>>
  \/ Percentage /\ UNCHANGED <<sync, calc>>
  \/ Deliver /\ UNCHANGED <<sync, calc>>
  \/ Tick /\ UNCHANGED <<sync, calc>>

PreviewSpec == Init /\ [][NextPreview]_vars

\* A tracked amount in the engine's ten-thousandths of a unit.
EngineAmount(a) == a * 1000

\* ------------------------------------------- transactions of every kind
\* The tracker and the engine share no state, so a behaviour follows syncs
\* of the wallet or calls of the engine, over transactions of every type
\* and outcome, with and without an amount.
EligKinds ==
  { [type |-> "sent", success |-> TRUE, amount |-> 6],
    [type |-> "received", success |-> TRUE, amount |-> 6],
    [type |-> "unknown", success |-> TRUE, amount |-> 6],
    [type |-> "sent", success |-> FALSE, amount |-> 6],
    [type |-> "sent", success |-> TRUE, amount |-> 0] }

EligPreviewTxs ==
  { [type |-> k.type, success |-> k.success,
     amount |-> EngineAmount(k.amount), mint |-> FALSE,
     blockTime |-> recentWindow] : k \in EligKinds }

\* Configurations without minimum and maximum.
EligConfigs == { c \in Configs : c.min = 0 /\ c.max = 0 }

SyncUntouched == chain = <<>> /\ users = <<>> /\ AllIdle /\ faults = 0
PreviewUntouched ==
  /\ preview = NoPreview /\ now = recentWindow
  /\ \A k \in Keys : priceCache[k] = NoEntry /\ liveFetches[k] = 0

NextElig ==
  \/ PreviewUntouched /\ ArriveOf(EligKinds)
  \/ PreviewUntouched /\ AllIdle /\ ConnectWallet
  \/ \E p \in Procs : PreviewUntouched /\ AllIdle /\ FreeSlot(p) /\ Begin(p)
  \/ \E p \in Procs : Step(p)
  \/ /\ SyncUntouched
     /\ GenerateOf(EligPreviewTxs, EligConfigs, MaxPreview)
     /\ UNCHANGED <<sync, calc>>
  \/ Roundup /\ UNCHANGED <<sync, calc>>
  \/ Percentage /\ UNCHANGED <<sync, calc>>
  \/ Deliver /\ UNCHANGED <<sync, calc>>
  \/ SyncUntouched /\ Tick /\ UNCHANGED <<sync, calc>>

EligSpec == Init /\ [][NextElig]_vars

\* ----------------------------------------- calculateSpareChangeSummary
\* What the summary adds for one spare change: the capped amount, unless a
\* minimum is set and the capped amount is below it.
SummaryAmount(spare, config) ==
  LET finalSpareChange == FinalSpareChange(spare, config)
  IN IF config.min = 0 \/ finalSpareChange >= config.min
     THEN finalSpareChange ELSE 0

\* The loop over the first n transactions: the round-up total ...
RECURSIVE RoundupTotal(_, _, _)
RoundupTotal(txs, config, n) ==
  IF n = 0 THEN 0
  ELSE RoundupTotal(txs, config, n - 1)
       + (IF IsSent(txs[n]) /\ config.roundupEnabled
          THEN SummaryAmount(RoundupSpare(txs[n].amount), config)
          ELSE 0)

\* ... and the percentage total.
RECURSIVE PercentageTotal(_, _, _)
PercentageTotal(txs, config, n) ==
  IF n = 0 THEN 0
  ELSE PercentageTotal(txs, config, n - 1)
       + (IF /\ IsSent(txs[n])
             /\ config.percentageEnabled /\ config.percentageRate > 0
          THEN SummaryAmount(PercentageSpare(txs[n].amount,
                                             config.percentageRate), config)
          ELSE 0)

calculateSpareChangeSummary(txs, config) ==
  LET roundupTotal == RoundupTotal(txs, config, Len(txs))
      percentageTotal == PercentageTotal(txs, config, Len(txs))
  IN [kind |-> "summary",
      roundupTotal |-> roundupTotal, percentageTotal |-> percentageTotal,
      total |-> roundupTotal + percentageTotal,
      transactionCount |->
        Cardinality({ i \in 1..Len(txs) : IsSent(txs[i]) })]

\* generateProposals' totalSpareChange: the sum of spareChangeAmountSol over
\* the proposals pushed.
RECURSIVE TotalSpareChange(_)
TotalSpareChange(proposals) ==
  IF proposals = <<>> THEN 0
  ELSE Head(proposals).spareChangeAmountSol + TotalSpareChange(Tail(proposals))

\* The summary of the input of the generateProposals call that has just
\* finished.
Summarize ==
  /\ preview.pc = "done"
  /\ calc = NoCalc
  /\ calc' = calculateSpareChangeSummary(preview.txs, preview.config)
  /\ UNCHANGED <<sync, pricing>>

NextSummary ==
  \/ Generate /\ UNCHANGED <<sync, calc>>
  \/ Roundup /\ UNCHANGED <<sync, calc>>
  \/ Percentage /\ UNCHANGED <<sync, calc>>
  \/ Summarize
  \/ Deliver /\ calc' = NoCalc /\ UNCHANGED sync
  \/ Tick /\ UNCHANGED <<sync, calc>>

SummarySpec == Init /\ [][NextSummary]_vars

\* ------------------------------------------------ the order of proposals
\* Calls of the engine on up to MaxOrdered transactions, sent or received,
\* with either proposal type enabled or not and with or without a minimum.
OrderTxs ==
  { tx \in PreviewTxs :
      tx.amount = 5000 /\ ~tx.mint /\ tx.blockTime = recentWindow }

OrderConfigs == { c \in Configs : c.max = 0 /\ c.percentageRate = 1 }

NextOrder ==
  \/ GenerateOf(OrderTxs, OrderConfigs, MaxOrdered) /\ UNCHANGED <<sync, calc>>
  \/ Roundup /\ UNCHANGED <<sync, calc>>
  \/ Percentage /\ UNCHANGED <<sync, calc>>
  \/ Deliver /\ UNCHANGED <<sync, calc>>
  \/ Tick /\ UNCHANGED <<sync, calc>>

OrderSpec == Init /\ [][NextOrder]_vars

\* ------------------------------------------------- the oracle followed alone
\* HistoricalPriceRequest: the native asset or the token, at a block time
\* up to recentWindow minutes before the first call.
Requests == [mint : BOOLEAN, blockTime : 0..recentWindow]

\* One getHistoricalPrice call; calc keeps the request, the time of the
\* call and what it returned.
Ask ==
  /\ \E request \in Requests, resp \in Responses :
       LET r == GetHistoricalPrice(priceCache, request, now, resp)
       IN /\ OracleCall(request, r)
          /\ calc' = [kind |-> "quote", mint |-> request.mint,
                      blockTime |-> request.blockTime, at |-> now,
                      quote |-> r.quote, live |-> r.live,
                      degraded |-> r.degraded]
  /\ UNCHANGED <<sync, now, preview>>

NextOracle ==
  \/ Ask
  \/ Tick /\ UNCHANGED <<sync, calc>>

OracleSpec == Init /\ [][NextOracle]_vars

\* ------------------------------------- the two spare-change computations
\* One transaction at one price goes through processTransaction's
\* arithmetic and through the engine's round-up generator.  Amounts are
\* tenths of a unit and prices tenths of a USD, as in a sync.
Amounts == 1..MaxAmount
LawPrices == {5, 10, 18, 1800}    \* 0.50, 1.00, 1.80 and 180.00 USD

\* The configuration of a round-up without minimum and maximum.
RoundupOnly ==
  [roundupEnabled |-> TRUE, percentageEnabled |-> FALSE,
   percentageRate |-> 0, min |-> 0, max |-> 0]

NoRow == LedgerRow(0, 0, 10)
NoProposal ==
  Proposal(0, [amount |-> 0], "none", 0,
           [quote |-> NoQuote, degraded |-> FALSE], RoundupOnly)

LawInit ==
  /\ Construct
  /\ calc \in { [kind |-> "law", amount |-> a, price |-> price,
                  row |-> NoRow, proposal |-> NoProposal] :
                  a \in Amounts, price \in LawPrices }

\* processTransaction's row for the transaction at the price.
TrackRow ==
  /\ calc.row = NoRow
  /\ calc' = [calc EXCEPT !.row = LedgerRow(1, calc.amount, calc.price)]
  /\ UNCHANGED <<sync, pricing>>

\* generateRoundupProposal's proposal for the transaction at the price.
ProposeRoundup ==
  /\ calc.proposal = NoProposal
  /\ LET tx == [amount |-> EngineAmount(calc.amount)]
         spare == RoundupSpare(tx.amount)
         r == [quote |-> [price |-> calc.price, timestamp |-> 0,
                          source |-> "jupiter"],
               degraded |-> FALSE]
     IN /\ ~TooSmall(spare, RoundupOnly)
        /\ calc' = [calc EXCEPT !.proposal =
                      Proposal(1, tx, "roundup",
                               FinalSpareChange(spare, RoundupOnly), r,
                               RoundupOnly)]
  /\ UNCHANGED <<sync, pricing>>

NextLaw == TrackRow \/ ProposeRoundup

LawSpec == LawInit /\ [][NextLaw]_vars

\* ------------------------------------------ filterNewTransactions alone
\* A fetched list (newest first, any signatures dropped) and a pointer:
\* null, a signature of the list or a signature absent from it.
FilterInit ==
  /\ Construct
  /\ calc \in { [kind |-> "filter",
                  transactions |-> FetchedWindow(MaxWindow, MaxWindow, kept),
                  lastSignature |-> last, result |-> <<>>, done |-> FALSE] :
                  kept \in SUBSET (1..MaxWindow), last \in 0..MaxWindow }

Filter ==
  /\ ~calc.done
  /\ calc' = [calc EXCEPT
                !.result = filterNewTransactions(calc.transactions,
                                                 calc.lastSignature),
                !.done = TRUE]
  /\ UNCHANGED <<sync, pricing>>

FilterSpec == FilterInit /\ [][Filter]_vars

\* ================================================================ claims
AllRows == 1..Len(ledger)
RowsOfBatch(b) == { i \in AllRows : ledger[i].batchId = b }

\* The steps of a sync after the new subset is determined (step 3) up to
\* the threshold check and the batch creation (step 7).
InRegion(p) ==
  pc[p] \in {"insert", "accRead", "accWrite", "updLast", "check",
             "select", "batchIns", "mark", "reset"}

\* Request p has left createPayoutBatch for batch b.
LeftBatch(b) ==
  \A p \in Procs : ~(pc[p] \in {"mark", "reset"} /\ loc[p].batch = b)

\* C1: with requests run one at a time, whenever no call is in progress
\* the wallet's currentAccumulatedUsd equals the sum of spareChangeUsd over
\* its ledger rows with isProcessed = false, failed calls included.
C1_AccumulatorIsUnprocessedSum ==
  (AllIdle /\ users # <<>>) =>
    users[1].accUsd = SumUsd(ledger, Unprocessed(ledger))

\* C2: no two ledger rows share a signature, and the insert of a signature
\* that already has a row adds no row, changes no wallet field and is not
\* followed by updateAccumulatedSpareChange for that signature.
NoDuplicateRows ==
  \A i, j \in AllRows : ledger[i].sig = ledger[j].sig => i = j

C2_ReprocessIsNoOp ==
  [][/\ NoDuplicateRows'
     /\ \A p \in Procs :
          (Insert(p) /\ UniqueViolation(ledger, Head(loc[p].todo))) =>
            /\ ledger' = ledger
            /\ users' = users
            /\ pc'[p] \notin {"accRead", "accWrite"}
            /\ loc'[p].count = loc[p].count]_vars

\* C2 witness: a sync whose pointer was absent from the fetched window is
\* about to insert a signature that already has a row.
C2_Witness ==
  \E p \in Procs :
    /\ pc[p] = "insert"
    /\ loc[p].lastSig # 0
    /\ Head(loc[p].todo) <= loc[p].lastSig
    /\ UniqueViolation(ledger, Head(loc[p].todo))

\* C3: once the createPayoutBatch call that made a batch has finished, the
\* batch's transactionCount is the number of rows whose batchId is its id
\* and its totalSpareChangeUsd is the sum of their spareChangeUsd (stated
\* here for runs without any failure).
C3_BatchMatchesRows ==
  faults = 0 =>
    \A b \in 1..Len(batches) :
      LeftBatch(b) =>
        /\ batches[b].count = Cardinality(RowsOfBatch(b))
        /\ batches[b].usd = SumUsd(ledger, RowsOfBatch(b))

\* C4: the sets of rows two distinct batches counted are disjoint (stated
\* here for runs without any failure).
C4_BatchesDisjoint ==
  faults = 0 =>
    \A b1, b2 \in 1..Len(batches) :
      b1 # b2 => batches[b1].counted \cap batches[b2].counted = {}

\* C5: in every state a reader can observe, every batch has its member rows
\* marked processed with a batch id, and the accumulator was reset exactly
\* as often as a batch was created.
C5_BatchIsAtomic ==
  /\ \A b \in 1..Len(batches) :
       \A i \in batches[b].counted :
         ledger[i].processed /\ ledger[i].batchId # 0
  /\ users # <<>> => users[1].payouts = Len(batches)

\* C6: two syncs of the wallet are never both between determining the new
\* subset and the threshold check / batch creation.
C6_SyncsSerialized ==
  \A p, q \in Procs : (p # q /\ InRegion(p)) => ~InRegion(q)

\* C7: without any failure, once every sync has finished the wallet's
\* lifetimeAccumulatedUsd is the sum of spareChangeUsd over all persisted
\* rows: no increment is lost.
C7_NoLostIncrement ==
  (faults = 0 /\ AllIdle /\ users # <<>>) =>
    users[1].lifeUsd = SumUsd(ledger, AllRows)

\* C8: no step sets lastSeenSignature to an older transaction than the one
\* it pointed to (signatures are numbered in the source's order; stated
\* here for runs without any failure).
C8_PointerOnlyAdvances ==
  [][(faults' = 0 /\ users # <<>>) =>
       users'[1].lastSig >= users[1].lastSig]_vars

\* C9: after a sync returned successfully and while no transaction arrived,
\* a further sync changes no wallet field, no ledger row and no batch, and
\* returns newTransactionCount = 0.
C9_SyncIdempotent ==
  [][synced =>
       /\ users' = users /\ ledger' = ledger /\ batches' = batches
       /\ \A p \in Procs :
            (pc[p] # "done" /\ pc'[p] = "done" /\ loc'[p].err = "none") =>
              loc'[p].count = 0]_vars

\* C10: with requests run one at a time, a sync whose threshold check finds
\* currentAccumulatedUsd >= 1.00 (and only such a sync) goes on to create a
\* batch, at most one per call; when it completes, the batch's total and
\* count are those of the rows that were unprocessed, all of them now
\* carry its id, currentAccumulatedUsd and currentAccumulatedNative are 0
\* and totalPayouts grew by one; without failures the total is the
\* accumulator value that crossed the threshold.
C10_ThresholdBatch ==
  [][\A p \in Procs :
       /\ (pc[p] = "check" /\ pc'[p] \in {"select", "done"}
             /\ loc'[p].err = "none") =>
            (pc'[p] = "select" <=> users[1].accUsd >= payoutThreshold)
       /\ (pc[p] = "batchIns" /\ pc'[p] = "mark") =>
            /\ loc[p].batch = 0
            /\ Len(batches') = Len(batches) + 1
       /\ (pc[p] = "reset" /\ pc'[p] = "done" /\ loc'[p].err = "none") =>
            LET b == loc[p].batch
            IN /\ loc'[p].batch = b
               /\ RowsOfBatch(b) = loc[p].snap
               /\ Unprocessed(ledger) = {}
               /\ batches[b].count = Cardinality(RowsOfBatch(b))
               /\ batches[b].usd = SumUsd(ledger, RowsOfBatch(b))
               /\ faults = 0 => batches[b].usd = users[1].accUsd
               /\ users'[1].accUsd = 0
               /\ users'[1].accSol = 0
               /\ users'[1].payouts = users[1].payouts + 1]_vars

\* C10 witness: 0.40 then 0.70 were accumulated; one batch of 1.10 exists,
\* the accumulator is 0 and one payout is counted.
C10_Witness ==
  /\ faults = 0 /\ AllIdle
  /\ Len(ledger) = 2 /\ ledger[1].usd = 40 /\ ledger[2].usd = 70
  /\ Len(batches) = 1 /\ batches[1].usd = 110 /\ batches[1].count = 2
  /\ users[1].accUsd = 0 /\ users[1].accSol = 0 /\ users[1].payouts = 1

\* C11: with requests run one at a time, every sync that returns
\* successfully leaves the wallet's currentAccumulatedUsd below 1.00, also
\* when it found no new transaction and an earlier batch creation failed.
C11_ReturnBelowThreshold ==
  \A p \in Procs :
    (pc[p] = "done" /\ loc[p].err = "none" /\ users # <<>>) =>
      users[1].accUsd < payoutThreshold

\* ------------------------------------------------------ proposal preview
\* The proposals of the call in progress.
Proposals == { preview.proposals[k] : k \in 1..Len(preview.proposals) }
OfType(kind) == { q \in Proposals : q.proposalType = kind }

\* C12: a round-up proposal that no maximum capped has a spare change s
\* with 0 <= s < 1 that completes the amount to a whole number of units
\* (s = ceil(a) - a), and spareChangeUsd = s * price.
C12_RoundupLaw ==
  preview.config.max = 0 =>
    \A q \in OfType("roundup") :
      /\ q.originalAmountSol > 0
      /\ 0 <= q.spareChangeAmountSol /\ q.spareChangeAmountSol < 10000
      /\ (q.originalAmountSol + q.spareChangeAmountSol) % 10000 = 0
      /\ q.spareChangeAmountUsd = q.spareChangeAmountSol * q.priceUsd

\* C12 witness: 0.5 native at price 180 gave spare change 0.5 and 90.00 USD.
C12_Witness ==
  /\ preview.config.max = 0 /\ preview.config.min = 0
  /\ \E q \in OfType("roundup") :
       /\ q.originalAmountSol = 5000 /\ q.priceUsd = 180
       /\ q.spareChangeAmountSol = 5000 /\ q.spareChangeAmountUsd = 900000

\* C13: when minProposalAmount and maxProposalAmount are both set, every
\* proposal's spareChangeNative lies in [min, max].
C13_WithinMinMax ==
  (preview.config.min # 0 /\ preview.config.max # 0) =>
    \A q \in Proposals :
      /\ preview.config.min <= q.spareChangeAmountSol
      /\ q.spareChangeAmountSol <= preview.config.max

\* C14: a percentage proposal of a transaction with amount a at rate r > 0
\* and price p has spareChangeNative = a * r / 100, capped at the maximum
\* and absent below the minimum, spareChangeUsd = spareChangeNative * p and
\* originalAmountUsd = a * p.
C14_PercentageLaw ==
  \A q \in OfType("percentage") :
    LET a == preview.txs[q.tx].amount
        r == preview.config.percentageRate
        min == preview.config.min
        max == preview.config.max
    IN /\ r > 0 /\ q.percentageRate = r /\ q.originalAmountSol = a
       /\ IF max = 0 \/ a * r <= max * 100
          THEN q.spareChangeAmountSol * 100 = a * r
          ELSE q.spareChangeAmountSol = max
       /\ min = 0 \/ a * r >= min * 100
       /\ q.spareChangeAmountUsd = q.spareChangeAmountSol * q.priceUsd
       /\ q.originalAmountUsd = a * q.priceUsd

\* C14 witness: rate 1.0 on 10 native at price 180 gave 0.10 and 18.00 USD.
C14_Witness ==
  /\ preview.config.max = 0 /\ preview.config.min = 0
  /\ preview.config.percentageRate = 1
  /\ \E q \in OfType("percentage") :
       /\ q.originalAmountSol = 100000 /\ q.priceUsd = 180
       /\ q.spareChangeAmountSol = 1000 /\ q.spareChangeAmountUsd = 180000

\* The proposals a finished call owes: one per eligible transaction and
\* enabled type whose spare change is not below the minimum.
Owed ==
  { <<i, kind>> \in (1..Len(preview.txs)) \X {"roundup", "percentage"} :
      /\ IsSent(preview.txs[i])
      /\ IF kind = "roundup"
         THEN /\ preview.config.roundupEnabled
              /\ ~TooSmall(RoundupSpare(preview.txs[i].amount), preview.config)
         ELSE /\ preview.config.percentageEnabled
              /\ preview.config.percentageRate > 0
              /\ ~TooSmall(PercentageSpare(preview.txs[i].amount,
                                           preview.config.percentageRate),
                           preview.config) }

Metadata(q) == <<q.timestamp, q.source>>

\* C16: a degraded quote differs from a fetched one in a field other than
\* the price, and so do the proposals made from them.
C16_DegradedIsSignaled ==
  /\ (served.degraded # NoQuote /\ served.live # NoQuote) =>
       Metadata(served.degraded) # Metadata(served.live)
  /\ \A q1, q2 \in Proposals :
       (q1.degraded /\ ~q2.degraded) => q1.priceSource # q2.priceSource

\* C17: for each cache key, at most one live fetch is issued per expiry of
\* the key's entry, failed fetches included.
C17_OneFetchPerExpiry ==
  \A k \in Keys : liveFetches[k] <= 1

\* ------------------------------------------------------- error handling
\* C18: a call with a malformed address ends with an invalid-address error
\* and has called neither the store nor the source nor the price feed.
C18_MalformedRejectedFirst ==
  \A p \in Procs :
    (pc[p] = "done" /\ loc[p].bad) =>
      loc[p].err = "InvalidAddress" /\ ~loc[p].io

\* C19: a sync for an address without a wallet account, whose read of the
\* user succeeds, ends at once with the wallet-not-found error: it never
\* fetches and leaves wallet, ledger and batches as they were; no sync is
\* past that read without an account.
C19_WalletNotFound ==
  [][\A p \in Procs :
       /\ (pc[p] = "idle" /\ pc'[p] # "idle" /\ users = <<>>
             /\ faults' = faults) =>
            /\ pc'[p] = "done" /\ loc'[p].err = "UserNotFound"
            /\ UNCHANGED <<chain, users, ledger, batches>>
       /\ pc'[p] \notin {"idle", "done"} => users' # <<>>]_vars

\* C19 witness: a sync ended with wallet-not-found, no account existing.
C19_Witness ==
  \E p \in Procs :
    pc[p] = "done" /\ loc[p].err = "UserNotFound" /\ users = <<>>

\* C20: when the fetch of a sync fails, the sync ends with the fetch error
\* and neither that step nor the read before it changed the pointer, the
\* accumulator fields, the ledger or the batches.
C20_FetchFailureAborts ==
  [][\A p \in Procs :
       /\ (pc[p] = "fetch" /\ pc'[p] = "done" /\ loc'[p].srcErr) =>
            /\ loc'[p].err = "FetchFailed"
            /\ UNCHANGED <<users, ledger, batches>>
       /\ (pc[p] = "idle" /\ pc'[p] = "fetch") =>
            UNCHANGED <<users, ledger, batches>>]_vars

\* C20 witness: a sync of a wallet with new transactions at the source
\* ended on a failed fetch.
C20_Witness ==
  \E p \in Procs :
    /\ pc[p] = "done" /\ loc[p].srcErr
    /\ users # <<>> /\ users[1].lastSig < Len(chain)

\* C21: a createPayoutBatch call that finds no unprocessed row ends the
\* sync with the no-unprocessed-transactions error and changes neither the
\* batches nor the ledger nor the wallet; no call goes on to insert a
\* batch, mark rows or reset the accumulator with no row selected.
C21_NoUnprocessedFails ==
  [][\A p \in Procs :
       /\ (pc[p] = "select" /\ pc'[p] # "select" /\ faults' = faults
             /\ Unprocessed(ledger) = {}) =>
            /\ pc'[p] = "done" /\ loc'[p].err = "NoUnprocessed"
            /\ loc'[p].batch = 0
            /\ UNCHANGED <<users, ledger, batches>>
       /\ pc'[p] \in {"batchIns", "mark", "reset"} => loc'[p].snap # {}]_vars

\* C21 witness: a sync ended with that error while the accumulator stood at
\* the threshold or above and every row was processed.
C21_Witness ==
  \E p \in Procs :
    /\ pc[p] = "done" /\ loc[p].err = "NoUnprocessed"
    /\ users[1].accUsd >= payoutThreshold
    /\ ledger # <<>> /\ Unprocessed(ledger) = {}

\* C22: a sync in which the store failed to write a ledger row does not
\* end as a success: its caller gets an error.  (The result of a sync has
\* no field that could name a failure.)
C22_PersistFailureSurfaced ==
  \A p \in Procs :
    (pc[p] = "done" /\ loc[p].failed # {}) => loc[p].err # "none"

\* --------------------------------------------------- the round-up law
\* ceil(a) of a tracked amount, in tenths of a unit.
CeilTenths(a) == ((a + 9) \div 10) * 10

\* C23: a ledger row has spareChangeNative = ceil(a) - a and
\* spareChangeUsd = (ceil(a) - a) * p, the values of the engine's round-up
\* proposal for the same transaction and price without min/max.
C23_TrackerUsesEngineLaw ==
  calc.kind = "law" =>
    /\ calc.row # NoRow =>
         /\ calc.row.sol = (CeilTenths(calc.amount) - calc.amount) * 100
         /\ calc.row.usd = (CeilTenths(calc.amount) - calc.amount) * calc.price
    /\ (calc.row # NoRow /\ calc.proposal # NoProposal) =>
         /\ calc.row.sol * 10 = calc.proposal.spareChangeAmountSol
         /\ calc.row.usd * 1000 = calc.proposal.spareChangeAmountUsd

\* C24: a ledger row of a positive amount has 0 <= spareChangeUsd and
\* spareChangeUsd < priceUsed, the USD value of one unit (a price in tenths
\* of a USD is ten times as many cents).
C24_SpareBelowUnitValue ==
  (calc.kind = "law" /\ calc.row # NoRow) =>
    /\ calc.amount > 0
    /\ 0 <= calc.row.usd
    /\ calc.row.usd < calc.row.price * 10

\* C25: for a fetched list and a pointer s, the new subset is the elements
\* before the place of s, in order, when s occurs in the list, and the
\* whole list when s is null or does not occur.
C25_NewSubsetIsPrefix ==
  (calc.kind = "filter" /\ calc.done) =>
    LET txs == calc.transactions
        s == calc.lastSignature
        new == calc.result
    IN IF \E i \in 1..Len(txs) : txs[i] = s
       THEN \A i \in 1..Len(txs) :
              txs[i] = s => /\ Len(new) = i - 1
                            /\ \A k \in 1..(i - 1) : new[k] = txs[k]
       ELSE new = txs

\* C25 witness: the pointer is the third of four fetched signatures and the
\* two newer ones are the new subset.
C25_Witness ==
  /\ calc.kind = "filter" /\ calc.done
  /\ calc.transactions = <<4, 3, 2, 1>> /\ calc.lastSignature = 2
  /\ calc.result = <<4, 3>>

\* C25, second case: the pointer is absent from a non-empty list, all of
\* which is new.
C25_WitnessAbsent ==
  /\ calc.kind = "filter" /\ calc.done
  /\ calc.transactions = <<4, 3>> /\ calc.lastSignature = 2
  /\ calc.result = <<4, 3>>

\* The steps of a sync after its write of the pointer.
AfterUpdLast == {"check", "select", "batchIns", "mark", "reset", "done"}

\* C26: a sync writes lastSeenSignature at most once, only when its loop
\* over the rows is over, and the value is the signature of the newest
\* transaction of its new subset, eligible or not; a sync that returns has
\* written it exactly once when its new subset was non-empty, whatever
\* rows were persisted, and not at all when it was empty.
C26_WrittenOnceWhenCompleted ==
  [][/\ (users # <<>> /\ users' # <<>>
          /\ users'[1].lastSig # users[1].lastSig) =>
          \E q \in Procs :
            /\ pc[q] = "updLast" /\ pc'[q] = "check"
            /\ loc[q].todo = <<>> /\ loc[q].new # <<>>
            /\ users'[1].lastSig = Head(loc[q].new)
     /\ \A p \in Procs :
          /\ loc'[p].wrote <= 1
          /\ loc'[p].wrote # loc[p].wrote =>
               \/ pc'[p] = "idle"
               \/ /\ pc[p] = "updLast" /\ loc[p].todo = <<>>
                  /\ users'[1].lastSig = Head(loc[p].new)
          /\ loc'[p].wrote = 1 => pc'[p] \in AfterUpdLast
          /\ (pc'[p] = "done" /\ loc'[p].err = "none") =>
               loc'[p].wrote = IF loc'[p].new # <<>> THEN 1 ELSE 0]_vars

\* C26 witness: a sync whose newest new transaction is a received one, and
\* which wrote no row, has returned with the pointer on that transaction.
C26_Witness ==
  \E p \in Procs :
    /\ pc[p] = "done" /\ loc[p].err = "none" /\ loc[p].wrote = 1
    /\ Len(loc[p].new) = 2 /\ ~IsSent(chain[Head(loc[p].new)])
    /\ loc[p].count = 0 /\ loc[p].failed # {}
    /\ users[1].lastSig = Head(loc[p].new)

\* ------------------------------------------------------------ eligibility
\* A transaction that is sent, successful and carries a non-zero amount.
Eligible(tx) == tx.type = "sent" /\ tx.success = TRUE /\ tx.amount > 0

\* C27: every proposal and every ledger row belongs to a transaction that
\* is sent, successful and has a non-zero amount, and every increase of the
\* accumulator or the lifetime total is the accumulation of such a
\* transaction's row: a received, unknown or failed transaction and one
\* without amount produce nothing.
C27_OnlyEligibleProduce ==
  [][/\ \A k \in 1..Len(preview'.proposals) :
          Eligible(preview'.txs[preview'.proposals[k].tx])
     /\ \A i \in 1..Len(ledger') : Eligible(chain'[ledger'[i].sig])
     /\ (users # <<>> /\ users' # <<>>
          /\ \/ users'[1].accUsd > users[1].accUsd
             \/ users'[1].lifeUsd > users[1].lifeUsd) =>
          \E p \in Procs :
            /\ pc[p] = "accWrite"
            /\ Eligible(chain[Head(loc[p].todo)])
            /\ \E i \in AllRows : ledger[i].sig = Head(loc[p].todo)]_vars

\* C27 witness: a sync over an unknown, a sent and a failed transaction
\* (the fetch took the two newest, the sent one and the failed one) has
\* returned with one row and its spare change as the accumulator.
C27_Witness ==
  \E p \in Procs :
    /\ pc[p] = "done" /\ loc[p].err = "none" /\ loc[p].count = 1
    /\ Len(chain) = 3 /\ chain[1].type = "unknown"
    /\ Eligible(chain[2]) /\ ~chain[3].success /\ loc[p].new = <<3, 2>>
    /\ Len(ledger) = 1 /\ ledger[1].sig = 2
    /\ users[1].accUsd = ledger[1].usd /\ users[1].lifeUsd = ledger[1].usd

\* C27, the engine: a finished call on a transaction without amount, with
\* both proposal types enabled, holds no proposal.
C27_WitnessPreview ==
  /\ preview.pc = "done" /\ Len(preview.txs) = 1
  /\ preview.txs[1].type = "sent" /\ preview.txs[1].amount = 0
  /\ preview.config.roundupEnabled /\ preview.config.percentageEnabled
  /\ preview.config.percentageRate > 0
  /\ preview.proposals = <<>>

\* C28: the proposals of a call are in the order of the input
\* transactions, a transaction has at most one proposal of each type and
\* its round-up proposal comes before its percentage proposal; with both
\* types enabled and no minimum a finished call holds both for every
\* eligible transaction; the amounts of a proposal are those of its
\* transaction and type at the price of its quote.
C28_ProposalOrder ==
  LET ps == preview.proposals
      Rank(kind) == IF kind = "roundup" THEN 1 ELSE 2
      Spare(q) ==
        IF q.proposalType = "roundup"
        THEN EngineAmount(10) * ((q.originalAmountSol + EngineAmount(10) - 1)
                                  \div EngineAmount(10)) - q.originalAmountSol
        ELSE (q.originalAmountSol * preview.config.percentageRate) \div 100
  IN /\ \A k, l \in 1..Len(ps) :
          k < l =>
            \/ ps[k].tx < ps[l].tx
            \/ /\ ps[k].tx = ps[l].tx
               /\ Rank(ps[k].proposalType) < Rank(ps[l].proposalType)
     /\ \A k \in 1..Len(ps) :
          /\ ps[k].proposalType \in {"roundup", "percentage"}
          /\ ps[k].originalAmountSol = preview.txs[ps[k].tx].amount
          /\ ps[k].spareChangeAmountSol = Spare(ps[k])
          /\ ps[k].spareChangeAmountUsd = Spare(ps[k]) * ps[k].priceUsd
     /\ (/\ preview.pc = "done"
         /\ preview.config.roundupEnabled /\ preview.config.percentageEnabled
         /\ preview.config.percentageRate > 0 /\ preview.config.min = 0) =>
          \A i \in 1..Len(preview.txs) :
            Eligible(preview.txs[i]) =>
              \E k \in 1..(Len(ps) - 1) :
                /\ ps[k].tx = i /\ ps[k].proposalType = "roundup"
                /\ ps[k + 1].tx = i /\ ps[k + 1].proposalType = "percentage"

\* C28 witness: a finished call on two sent transactions with both types
\* enabled holds the round-up and the percentage proposal of the first and
\* then those of the second.
C28_Witness ==
  /\ preview.pc = "done" /\ Len(preview.txs) = 2
  /\ Eligible(preview.txs[1]) /\ Eligible(preview.txs[2])
  /\ [k \in 1..Len(preview.proposals) |->
        <<preview.proposals[k].tx, preview.proposals[k].proposalType>>]
       = << <<1, "roundup">>, <<1, "percentage">>,
            <<2, "roundup">>, <<2, "percentage">> >>

\* The eligible transactions of a sync's new subset.
SentOf(new) == { sig \in SeqRange(new) : Eligible(chain[sig]) }

\* C29: with requests run one at a time, the step in which the store fails
\* to write a transaction's row adds no row, changes no wallet field and
\* does not count the transaction, and the loop goes on; when the sync
\* ends, it has failed only if something else failed too, and otherwise
\* it has advanced lastSeenSignature to the newest new transaction, every
\* other eligible transaction of its new subset has a row, and (nothing
\* else having failed) all of them are counted and accumulated.
C29_FailedRowSkipped ==
  [][\A p \in Procs :
       /\ (loc'[p].failed # loc[p].failed /\ pc'[p] # "idle") =>
            /\ pc[p] = "insert"
            /\ loc'[p].failed = loc[p].failed \cup {Head(loc[p].todo)}
            /\ ledger' = ledger /\ users' = users
            /\ loc'[p].count = loc[p].count
            /\ loc'[p].todo = Tail(loc[p].todo)
            /\ pc'[p] \in {"insert", "updLast"}
       /\ (pc'[p] = "done" /\ loc'[p].failed # {}) =>
            IF loc'[p].err = "none"
            THEN /\ loc'[p].wrote = 1
                 /\ users'[1].lastSig = Head(loc'[p].new)
                 /\ \A sig \in SentOf(loc'[p].new) \ loc'[p].failed :
                      \E i \in 1..Len(ledger') : ledger'[i].sig = sig
                 /\ loc'[p].count <=
                      Cardinality(SentOf(loc'[p].new) \ loc'[p].failed)
                 /\ faults' = Cardinality(loc'[p].failed) =>
                      /\ loc'[p].count =
                           Cardinality(SentOf(loc'[p].new) \ loc'[p].failed)
                      /\ users'[1].lifeUsd =
                           SumUsd(ledger', 1..Len(ledger'))
            ELSE faults' > Cardinality(loc'[p].failed)]_vars

\* C29 witness: of two new sent transactions the write of the newer one
\* failed; the sync has returned with the other one counted and in the
\* ledger and the pointer on the newer one.
C29_Witness ==
  \E p \in Procs :
    /\ pc[p] = "done" /\ loc[p].err = "none"
    /\ Len(loc[p].new) = 2 /\ SentOf(loc[p].new) = SeqRange(loc[p].new)
    /\ loc[p].failed = {Head(loc[p].new)} /\ loc[p].count = 1
    /\ \E i \in AllRows : ledger[i].sig = loc[p].new[2]
    /\ \A i \in AllRows : ledger[i].sig # Head(loc[p].new)
    /\ users[1].lastSig = Head(loc[p].new)
    /\ users[1].lifeUsd = SumUsd(ledger, AllRows) /\ users[1].lifeUsd > 0

\* ------------------------------------------------- historical quotes
\* C30: a quote for a block time at least recentWindow old carries the
\* block time as its timestamp and the current price (the cached one, the
\* fetched one or the degraded 0); a quote for a younger block time carries
\* the time its price was fetched: the time of the call when it was
\* fetched by the call, the cache entry's time when it came from the
\* cache.  The two kinds differ in the timestamp's age: at least
\* recentWindow against at most cacheDuration.
C30_TimestampTellsApproximation ==
  calc.kind = "quote" =>
    LET key == IF calc.mint THEN "mint_current" ELSE "sol_current"
        q == calc.quote
    IN /\ IF calc.degraded THEN q.price = 0
          ELSE priceCache[key].present /\ q.price = priceCache[key].price
       /\ IF calc.at - calc.blockTime >= recentWindow
          THEN /\ q.timestamp = calc.blockTime
               /\ calc.at - q.timestamp >= recentWindow
          ELSE /\ calc.live => q.timestamp = calc.at
               /\ ~calc.live =>
                    /\ q.source = "cached"
                    /\ q.timestamp = priceCache[key].timestamp
               /\ calc.at - q.timestamp <= cacheDuration
               /\ calc.at - q.timestamp < recentWindow

\* C30 witness: a price fetched at minute 5 is served from the cache at
\* minute 6 for a block time four minutes old, with timestamp 5.
C30_Witness ==
  /\ calc.kind = "quote" /\ calc.at = recentWindow + 1
  /\ calc.blockTime = calc.at - (recentWindow - 1)
  /\ ~calc.live /\ calc.quote.source = "cached"
  /\ calc.quote.timestamp = recentWindow /\ calc.quote.price = 180

\* C30, the other case: a block time exactly recentWindow old gets the
\* fetched current price with the block time as timestamp.
C30_WitnessOld ==
  /\ calc.kind = "quote" /\ calc.at - calc.blockTime = recentWindow
  /\ calc.live /\ calc.quote.price = 180
  /\ calc.quote.timestamp = calc.blockTime

\* -------------------------------------------------------- ledger rows
\* C31: a row that is processed and carries a batch id is changed by no
\* later step, whatever the interleaving of syncs; a step changes a row
\* only when the row is still unprocessed, and rows are never removed.
C31_BatchedRowsFrozen ==
  [][/\ Len(ledger') >= Len(ledger)
     /\ \A i \in 1..Len(ledger) :
          /\ ledger[i].processed => ledger'[i] = ledger[i]
          /\ ledger'[i] # ledger[i] =>
               \E p \in Procs : pc[p] = "mark" /\ i \in loc[p].snap]_vars

\* C32: a row written at the degraded price 0 has spareChangeUsd = 0 and a
\* spareChangeNative that is a number, and the wallet's accumulated and
\* lifetime amounts stay numbers.
C32_DegradedRowWellDefined ==
  /\ \A i \in AllRows :
       ledger[i].price = 0 => ledger[i].usd = 0 /\ ledger[i].sol # NaN
  /\ users # <<>> =>
       /\ users[1].accUsd # NaN /\ users[1].accSol # NaN
       /\ users[1].lifeUsd # NaN /\ users[1].lifeSol # NaN

\* C33: when a sync returns successfully, every eligible transaction the
\* source held at its fetch and orders newer than the pointer the sync
\* started from has a ledger row.
C33_NoEligibleSkipped ==
  [][\A p \in Procs :
       (pc[p] # "done" /\ pc'[p] = "done" /\ loc'[p].err = "none") =>
         \A sig \in (loc[p].lastSig + 1)..loc'[p].seen :
           Eligible(chain[sig]) =>
             \E i \in 1..Len(ledger') : ledger'[i].sig = sig]_vars

\* C34: connectWallet creates the wallet with the newest existing
\* transaction as its pointer and every amount at 0, and no ledger row
\* ever belongs to a transaction that existed when the wallet was
\* connected.
C34_BaselineExcludesHistory ==
  [][/\ (users = <<>> /\ users' # <<>>) =>
          /\ users'[1].lastSig = Len(chain)
          /\ users'[1].accUsd = 0 /\ users'[1].accSol = 0
          /\ users'[1].lifeUsd = 0 /\ users'[1].lifeSol = 0
          /\ users'[1].payouts = 0
     /\ users' # <<>> =>
          \A i \in 1..Len(ledger') : ledger'[i].sig > users'[1].existing]_vars

\* C35: no step decreases the wallet's lifetime amounts, the reset of a
\* payout leaves them unchanged, and with requests run one at a time,
\* whenever no call is in progress lifetimeAccumulatedUsd is the sum of
\* spareChangeUsd over all ledger rows.
C35_LifetimeIsRowSum ==
  [][users' # <<>> =>
       /\ users # <<>> =>
            /\ users'[1].lifeUsd >= users[1].lifeUsd
            /\ (users[1].lifeSol # NaN /\ users'[1].lifeSol # NaN) =>
                 users'[1].lifeSol >= users[1].lifeSol
            /\ users'[1].payouts # users[1].payouts =>
                 /\ users'[1].lifeUsd = users[1].lifeUsd
                 /\ users'[1].lifeSol = users[1].lifeSol
       /\ (\A p \in Procs : pc'[p] = "idle") =>
            users'[1].lifeUsd = SumUsd(ledger', 1..Len(ledger'))]_vars

\* ------------------------------------------------------------ summary
\* C36: for the input of a finished generateProposals call, the summary's
\* roundupTotal and percentageTotal are the sums of spareChangeAmountSol
\* over the call's round-up and percentage proposals, and its total is the
\* call's totalSpareChange.
C36_SummaryAgrees ==
  (calc.kind = "summary" /\ preview.pc = "done") =>
    /\ calc.roundupTotal =
         TotalSpareChange(SelectSeq(preview.proposals,
                                    LAMBDA q : q.proposalType = "roundup"))
    /\ calc.percentageTotal =
         TotalSpareChange(SelectSeq(preview.proposals,
                                    LAMBDA q : q.proposalType = "percentage"))
    /\ calc.total = TotalSpareChange(preview.proposals)

====
